---- MODULE Spec2Model ----
(***************************************************************************)
(* Model of the UPnP action primitives of NoPASARAN                        *)
(* (src/nopasaran/primitives/action_primitives/upnp_primitives.py).        *)
(*                                                                         *)
(* One behaviour is one invocation of one primitive by the state-machine   *)
(* engine: the engine's variables for the output names hold either nothing *)
(* or a value left by an earlier step of the flow (store0), the primitive  *)
(* is called with its bound input values and runs to its return or to the  *)
(* exception that leaves it.  Everything the primitive does to the outside *)
(* is recorded, in program order, in trace: every call of the miniupnpc    *)
(* object with its arguments and outcome, and every set_variable_value;    *)
(* the batch loop of add_multiple_port_mappings also records the token     *)
(* index of each of its "while" tests.                                     *)
(*                                                                         *)
(* The functions are modelled as Python binds them in the class body:      *)
(*  - delete_port_mapping ends at line 99; the "if upnp:" block of lines   *)
(*    101-106 is dedented to class level and belongs to no primitive;      *)
(*  - delete_port_range ends at line 236 with "deleted = []@staticmethod"  *)
(*    (a matrix multiplication of a list by a type);                       *)
(*  - add_multiple_port_mappings is defined twice (238-302 and 308-358),   *)
(*    the second definition is the one the class keeps, so the range loop  *)
(*    of lines 291-302 is in a function no name refers to.                 *)
(***************************************************************************)
EXTENDS Integers, Sequences, FiniteSets, TLC

VARIABLES pc, op, inputs, trace, raised, store, store0

vars == <<pc, op, inputs, trace, raised, store, store0>>

(***************************************************************************)
(* Bounds of the model.                                                    *)
(***************************************************************************)
\* longest variable tail of add_multiple_port_mappings that is enumerated
MaxTail == 5
\* number of device calls of one invocation whose outcome is chosen freely;
\* a later call finds nothing (an enumeration of a finite mapping table ends)
MaxCalls == 3

(***************************************************************************)
(* Python values.  Every value has the same four fields so that any two    *)
(* can be compared: t is the type, n the number of an int or bool, s the   *)
(* text of a str, l the items of a list, tuple or dict.                    *)
(***************************************************************************)
NoneV == [t |-> "none", n |-> 0, s |-> "", l |-> <<>>]
IntV(n) == [t |-> "int", n |-> n, s |-> "", l |-> <<>>]
StrV(s) == [t |-> "str", n |-> 0, s |-> s, l |-> <<>>]
BoolV(b) == [t |-> "bool", n |-> IF b THEN 1 ELSE 0, s |-> "", l |-> <<>>]
ListV(l) == [t |-> "list", n |-> 0, s |-> "", l |-> l]
TupleV(l) == [t |-> "tuple", n |-> 0, s |-> "", l |-> l]
DictV(l) == [t |-> "dict", n |-> 0, s |-> "", l |-> l]
\* the miniupnpc.UPnP object
UPnP == [t |-> "upnp", n |-> 0, s |-> "", l |-> <<>>]
\* a value an earlier step of the flow left in an output variable
Stale == StrV("stale")

\* Python truth value, as tested by "if upnp:", "if result:", "if not entry:"
Truthy(v) ==
    CASE v.t = "none" -> FALSE
      [] v.t = "int" -> v.n # 0
      [] v.t = "bool" -> v.n = 1
      [] v.t = "str" -> v.s # ""
      [] v.t \in {"list", "tuple", "dict"} -> v.l # <<>>
      [] OTHER -> TRUE

\* isinstance(v, int): true of int and of its subclass bool
IsInt(v) == v.t \in {"int", "bool"}

\* the decimal strings among the texts of the model, with the number they spell
Decimal == [x \in {"443"} |-> 443]

\* int(v): the number, or the exception int() raises
IntOf(v) ==
    CASE v.t \in {"int", "bool"} -> [err |-> "", n |-> v.n]
      [] v.t = "str" ->
            IF v.s \in DOMAIN Decimal
            THEN [err |-> "", n |-> Decimal[v.s]]
            ELSE [err |-> "ValueError", n |-> 0]
      [] OTHER -> [err |-> "TypeError", n |-> 0]

(***************************************************************************)
(* The trace of an invocation and the frame a primitive ends with.         *)
(***************************************************************************)
\* upnp.<m>(a) with outcome o ("ok", "falsy", "raise") and returned value v
CallEv(m, a, o, v) ==
    [k |-> "call", name |-> m, args |-> a, out |-> o, val |-> v, slot |-> 0]
\* state_machine.set_variable_value(outputs[j - 1], v)
SetEv(j, v) ==
    [k |-> "set", name |-> "", args |-> <<>>, out |-> "", val |-> v, slot |-> j]

\* the test "while i < len(args)" of the batch loop, with the value of i
LoopEv(i) ==
    [k |-> "loop", name |-> "", args |-> <<>>, out |-> "", val |-> NoneV, slot |-> i]

\* the primitive returned / an exception left the primitive
Return(tr) == [trace |-> tr, raised |-> ""]
Raise(tr, exc) == [trace |-> tr, raised |-> exc]

\* the engine's variables after the set_variable_value calls of a trace
RECURSIVE ApplyTrace(_, _)
ApplyTrace(st, tr) ==
    IF tr = <<>> THEN st
    ELSE ApplyTrace(IF Head(tr).k = "set"
                    THEN [st EXCEPT ![Head(tr).slot] = Head(tr).val]
                    ELSE st,
                    Tail(tr))

(***************************************************************************)
(* The gateway.  dev is the outcome of the j-th device call of the         *)
(* invocation; Ret is the value the call returns on that outcome.          *)
(***************************************************************************)
Outcomes == {"ok", "falsy", "raise"}
Scripts == [1..MaxCalls -> Outcomes]

\* calls that return a non-empty value or raise, never None/False/0
NeverFalsy == {"selectigd", "externalipaddress", "statusinfo", "GetFirewallStatus",
               "urlbase", "AddPinhole"}

Outcome(dev, j, name) ==
    LET o == IF j \in DOMAIN dev THEN dev[j] ELSE "falsy"
    IN IF o = "falsy" /\ name \in NeverFalsy THEN "ok" ELSE o

Ret(name, args, out) ==
    IF out = "raise" THEN NoneV
    ELSE CASE name = "discover" -> IntV(IF out = "ok" THEN 1 ELSE 0)
           [] name = "selectigd" -> StrV("http://192.168.1.1:5000/ctl")
           [] name = "externalipaddress" -> StrV("203.0.113.7")
           [] name = "addportmapping" -> BoolV(out = "ok")
           [] name = "addanyportmapping" -> IF out = "ok" THEN args[1] ELSE IntV(0)
           [] name = "statusinfo" -> TupleV(<<StrV("Connected"), IntV(42), StrV("")>>)
           [] name = "getgenericportmapping" ->
                 IF out = "ok" THEN TupleV(<<args[1], StrV("TCP")>>) ELSE NoneV
           [] name = "GetListOfPortMappings" ->
                 IF out = "ok" THEN ListV(<<TupleV(<<args[1], StrV("TCP")>>)>>)
                 ELSE ListV(<<>>)
           [] name = "AddPinhole" -> StrV("uid-1")
           [] name = "GetPinholePackets" -> IntV(IF out = "ok" THEN 7 ELSE 0)
           [] name = "GetOutboundPinholeTimeout" -> IntV(IF out = "ok" THEN 60 ELSE 0)
           [] name = "GetFirewallStatus" -> TupleV(<<BoolV(TRUE), BoolV(FALSE)>>)
           [] name = "urlbase" -> StrV("http://192.168.1.1:5000/")
           [] OTHER -> BoolV(out = "ok")

\* the j-th device call of the invocation, as an event
Call(dev, j, name, args) ==
    CallEv(name, args, Outcome(dev, j, name), Ret(name, args, Outcome(dev, j, name)))

(***************************************************************************)
(* The primitives.  in is the tuple of the values of the input variables,  *)
(* in[k + 1] being state_machine.get_variable_value(inputs[k]).            *)
(***************************************************************************)
\* discover storing the handle as soon as the device is selected
discover_early(dev) ==
    LET c1 == Call(dev, 1, "discover", <<>>)
        c2 == Call(dev, 2, "selectigd", <<>>)
        lan_ip == StrV("192.168.1.10")
        c3 == Call(dev, 3, "externalipaddress", <<>>)
    IN IF c1.out = "raise" THEN Raise(<<c1>>, "Exception")
       ELSE IF c1.val.n > 0
       THEN IF c2.out = "raise" THEN Raise(<<c1, c2>>, "Exception")
            ELSE IF c3.out = "raise"
            THEN Raise(<<c1, c2, SetEv(1, UPnP), SetEv(2, lan_ip), c3>>, "Exception")
            ELSE Return(<<c1, c2, SetEv(1, UPnP), SetEv(2, lan_ip), c3,
                          SetEv(3, c3.val)>>)
       ELSE Return(<<c1>>)

\* discover without the "if num_devices > 0:" test
discover_unconditional(dev) ==
    LET c1 == Call(dev, 1, "discover", <<>>)
        c2 == Call(dev, 2, "selectigd", <<>>)
        lan_ip == StrV("192.168.1.10")
        c3 == Call(dev, 3, "externalipaddress", <<>>)
    IN IF c1.out = "raise" THEN Raise(<<c1>>, "Exception")
       ELSE IF c2.out = "raise" THEN Raise(<<c1, c2>>, "Exception")
       ELSE IF c3.out = "raise" THEN Raise(<<c1, c2, c3>>, "Exception")
       ELSE Return(<<c1, c2, c3, SetEv(1, UPnP), SetEv(2, lan_ip), SetEv(3, c3.val)>>)

discover(dev) ==
    LET c1 == Call(dev, 1, "discover", <<>>)
        c2 == Call(dev, 2, "selectigd", <<>>)
        lan_ip == StrV("192.168.1.10")
        c3 == Call(dev, 3, "externalipaddress", <<>>)
    IN IF c1.out = "raise" THEN Raise(<<c1>>, "Exception")
       ELSE IF c1.val.n > 0
       THEN IF c2.out = "raise" THEN Raise(<<c1, c2>>, "Exception")
            ELSE IF c3.out = "raise" THEN Raise(<<c1, c2, c3>>, "Exception")
            ELSE Return(<<c1, c2, c3,
                          SetEv(1, UPnP), SetEv(2, lan_ip), SetEv(3, c3.val)>>)
       ELSE Return(<<c1>>)

\* add_port_mapping without the "if result:" test
add_port_mapping_unchecked(in, dev) ==
    LET upnp == in[1]
        e == IntOf(in[4])
        i == IntOf(in[5])
        c == Call(dev, 1, "addportmapping",
                  <<IntV(e.n), in[6], in[2], IntV(i.n),
                    StrV("Nopasaran mapping"), StrV("")>>)
    IN IF Truthy(upnp)
       THEN IF e.err # "" THEN Raise(<<>>, e.err)
            ELSE IF i.err # "" THEN Raise(<<>>, i.err)
            ELSE IF c.out = "raise" THEN Raise(<<c>>, "Exception")
            ELSE Return(<<c, SetEv(1, in[3]), SetEv(2, in[4])>>)
       ELSE Return(<<>>)

add_port_mapping(in, dev) ==
    LET upnp == in[1]
        lan_addr == in[2]
        external_ip == in[3]
        external_port == in[4]
        internal_port == in[5]
        protocol == in[6]
        e == IntOf(external_port)
        i == IntOf(internal_port)
        c == Call(dev, 1, "addportmapping",
                  <<IntV(e.n), protocol, lan_addr, IntV(i.n),
                    StrV("Nopasaran mapping"), StrV("")>>)
    IN IF Truthy(upnp)
       THEN IF e.err # "" THEN Raise(<<>>, e.err)
            ELSE IF i.err # "" THEN Raise(<<>>, i.err)
            ELSE IF c.out = "raise" THEN Raise(<<c>>, "Exception")
            ELSE IF Truthy(c.val)
            THEN Return(<<c, SetEv(1, external_ip), SetEv(2, external_port)>>)
            ELSE Return(<<c>>)
       ELSE Return(<<>>)

\* the function body ends after the three reads (line 99)
delete_port_mapping(in, dev) ==
    LET upnp == in[1]
        external_port == IntOf(in[2])
        protocol == in[3]
    IN IF external_port.err # "" THEN Raise(<<>>, external_port.err)
       ELSE Return(<<>>)

\* get_status writing the status record before it asks for the external IP
get_status_interleaved(in, dev) ==
    LET upnp == in[1]
        c1 == Call(dev, 1, "statusinfo", <<>>)
        c2 == Call(dev, 2, "externalipaddress", <<>>)
        status == c1.val
        record == SetEv(2, DictV(<<status.l[1], status.l[2], status.l[3]>>))
    IN IF Truthy(upnp)
       THEN IF c1.out = "raise" THEN Return(<<c1>>)
            ELSE IF c2.out = "raise" THEN Return(<<c1, record, c2>>)
            ELSE Return(<<c1, record, c2, SetEv(1, c2.val)>>)
       ELSE Return(<<>>)

get_status(in, dev) ==
    LET upnp == in[1]
        c1 == Call(dev, 1, "statusinfo", <<>>)
        c2 == Call(dev, 2, "externalipaddress", <<>>)
        status == c1.val
        external_ip == c2.val
    IN IF Truthy(upnp)
       THEN IF c1.out = "raise" THEN Return(<<c1>>)
            ELSE IF c2.out = "raise" THEN Return(<<c1, c2>>)
            ELSE Return(<<c1, c2,
                          SetEv(1, external_ip),
                          SetEv(2, DictV(<<status.l[1], status.l[2], status.l[3]>>))>>)
       ELSE Return(<<>>)

\* the "while True" loop of list_port_mappings: [mappings, trace] at its break
RECURSIVE list_loop(_, _, _, _)
list_loop(dev, i, mappings, tr) ==
    LET c == Call(dev, i + 1, "getgenericportmapping", <<IntV(i)>>)
        mapping == c.val
    IN IF c.out = "raise" THEN [mappings |-> mappings, trace |-> Append(tr, c)]
       ELSE IF mapping = NoneV THEN [mappings |-> mappings, trace |-> Append(tr, c)]
       ELSE list_loop(dev, i + 1, Append(mappings, mapping), Append(tr, c))

\* list_port_mappings with the try around the loop, as in the IGD:2 listing
list_port_mappings_outer_try(in, dev) ==
    LET upnp == in[1]
        r == list_loop(dev, 0, <<>>, <<>>)
    IN IF Truthy(upnp)
       THEN IF r.trace[Len(r.trace)].out = "raise" THEN Return(r.trace)
            ELSE Return(Append(r.trace, SetEv(1, ListV(r.mappings))))
       ELSE Return(<<>>)

list_port_mappings(in, dev) ==
    LET upnp == in[1]
        r == list_loop(dev, 0, <<>>, <<>>)
    IN IF Truthy(upnp)
       THEN Return(Append(r.trace, SetEv(1, ListV(r.mappings))))
       ELSE Return(<<>>)

add_any_port_mapping(in, dev) ==
    LET upnp == in[1]
        internal_ip == in[2]
        internal_port == IntOf(in[3])
        suggested_external_port == IntOf(in[4])
        protocol == in[5]
        duration == IntOf(in[6])
        c == Call(dev, 1, "addanyportmapping",
                  <<IntV(suggested_external_port.n), protocol, internal_ip,
                    IntV(internal_port.n), StrV("NoPASARAN any mapping"), StrV(""),
                    IntV(duration.n)>>)
        actual_port == c.val
    IN IF internal_port.err # "" THEN Raise(<<>>, internal_port.err)
       ELSE IF suggested_external_port.err # "" THEN Raise(<<>>, suggested_external_port.err)
       ELSE IF duration.err # "" THEN Raise(<<>>, duration.err)
       ELSE IF Truthy(upnp)
       THEN IF c.out = "raise" THEN Raise(<<c>>, "Exception")
            ELSE Return(<<c, SetEv(1, actual_port)>>)
       ELSE Return(<<>>)

\* the body ends with "deleted = []@staticmethod" (line 236): list @ type
delete_port_range(in, dev) ==
    LET upnp == in[1]
        port_start == IntOf(in[2])
        port_end == IntOf(in[3])
        protocol == in[4]
    IN IF port_start.err # "" THEN Raise(<<>>, port_start.err)
       ELSE IF port_end.err # "" THEN Raise(<<>>, port_end.err)
       ELSE Raise(<<>>, "TypeError")

\* the lookahead without its type test: any next token is taken as external port
lookahead_any(args, i) == i < Len(args)

\* the test of line 330: is there a next token, and is its value an int
lookahead(args, i) == i < Len(args) /\ IsInt(args[i + 1])

\* the batch loop without the "i += 1" that follows the read of the protocol
RECURSIVE batch_loop_short_step(_, _, _, _, _, _)
batch_loop_short_step(args, i, results, tr, dev, internal_ip) ==
    IF i < Len(args)
    THEN LET internal_port == IntOf(args[i + 1])
             i1 == i + 1
             ahead == lookahead(args, i1)
             external_port == IF ahead THEN IntOf(args[i1 + 1]).n ELSE internal_port.n
             i2 == IF ahead THEN i1 + 1 ELSE i1
             protocol == args[i2 + 1]
             c == Call(dev, Len(results) + 1, "addportmapping",
                       <<IntV(external_port), protocol, internal_ip,
                         IntV(internal_port.n), StrV("NoPASARAN bulk mapping"), StrV("")>>)
             tr1 == Append(tr, LoopEv(i))
         IN IF internal_port.err # "" THEN Raise(tr1, internal_port.err)
            ELSE IF ~(i2 < Len(args)) THEN Raise(tr1, "IndexError")
            ELSE IF c.out = "raise" THEN Raise(Append(tr1, c), "Exception")
            ELSE batch_loop_short_step(args, i2,
                            Append(results, DictV(<<IntV(internal_port.n),
                                                    IntV(external_port), protocol, c.val>>)),
                            Append(tr1, c), dev, internal_ip)
    ELSE Return(tr \o <<LoopEv(i), SetEv(1, ListV(results))>>)

\* the "while i < len(args)" loop of add_multiple_port_mappings and the two
\* statements after it; i is the Python index, args[i + 1] is args[i]
RECURSIVE batch_loop(_, _, _, _, _, _)
batch_loop(args, i, results, tr, dev, internal_ip) ==
    IF i < Len(args)
    THEN LET internal_port == IntOf(args[i + 1])
             i1 == i + 1
             ahead == lookahead(args, i1)
             external_port == IF ahead THEN IntOf(args[i1 + 1]).n ELSE internal_port.n
             i2 == IF ahead THEN i1 + 1 ELSE i1
             protocol == args[i2 + 1]
             i3 == i2 + 1
             c == Call(dev, Len(results) + 1, "addportmapping",
                       <<IntV(external_port), protocol, internal_ip,
                         IntV(internal_port.n), StrV("NoPASARAN bulk mapping"), StrV("")>>)
             success == c.val
             tr1 == Append(tr, LoopEv(i))
         IN IF internal_port.err # "" THEN Raise(tr1, internal_port.err)
            ELSE IF ~(i2 < Len(args)) THEN Raise(tr1, "IndexError")
            ELSE IF c.out = "raise" THEN Raise(Append(tr1, c), "Exception")
            ELSE batch_loop(args, i3,
                            Append(results, DictV(<<IntV(internal_port.n),
                                                    IntV(external_port), protocol, success>>)),
                            Append(tr1, c), dev, internal_ip)
    ELSE Return(tr \o <<LoopEv(i), SetEv(1, ListV(results))>>)

\* the second definition (lines 306-358), the one the class keeps
add_multiple_port_mappings(in, dev) ==
    LET upnp == in[1]
        internal_ip == in[2]
        args == SubSeq(in, 3, Len(in))
    IN IF Truthy(upnp)
       THEN batch_loop(args, 0, <<>>, <<>>, dev, internal_ip)
       ELSE Return(<<>>)

\* reads inputs[6] of the six inputs its decorator declares
add_pinhole(in, dev) ==
    LET upnp == in[1]
        remote_ip == in[2]
        remote_port == IntOf(in[3])
        internal_ip == in[4]
        internal_port == IntOf(in[5])
        protocol == in[6]
        lease_time == IntOf(in[7])
        c == Call(dev, 1, "AddPinhole",
                  <<remote_ip, IntV(remote_port.n), internal_ip, IntV(internal_port.n),
                    protocol, IntV(lease_time.n)>>)
        uid == c.val
    IN IF remote_port.err # "" THEN Raise(<<>>, remote_port.err)
       ELSE IF internal_port.err # "" THEN Raise(<<>>, internal_port.err)
       ELSE IF ~(7 \in DOMAIN in) THEN Raise(<<>>, "IndexError")
       ELSE IF lease_time.err # "" THEN Raise(<<>>, lease_time.err)
       ELSE IF Truthy(upnp)
       THEN IF c.out = "raise" THEN Return(<<c>>)
            ELSE Return(<<c, SetEv(1, uid)>>)
       ELSE Return(<<>>)

update_pinhole(in, dev) ==
    LET upnp == in[1]
        uid == in[2]
        new_lease_time == IntOf(in[3])
        c == Call(dev, 1, "UpdatePinhole", <<uid, IntV(new_lease_time.n)>>)
        result == c.val
    IN IF new_lease_time.err # "" THEN Raise(<<>>, new_lease_time.err)
       ELSE IF Truthy(upnp)
       THEN IF c.out = "raise" THEN Return(<<c>>)
            ELSE Return(<<c, SetEv(1, result)>>)
       ELSE Return(<<>>)

check_pinhole(in, dev) ==
    LET upnp == in[1]
        uid == in[2]
        c == Call(dev, 1, "CheckPinholeWorking", <<uid>>)
        result == c.val
    IN IF Truthy(upnp)
       THEN IF c.out = "raise" THEN Return(<<c>>)
            ELSE Return(<<c, SetEv(1, BoolV(Truthy(result)))>>)
       ELSE Return(<<>>)

get_pinhole_packet_count(in, dev) ==
    LET upnp == in[1]
        uid == in[2]
        c == Call(dev, 1, "GetPinholePackets", <<uid>>)
        count == c.val
    IN IF Truthy(upnp)
       THEN IF c.out = "raise" THEN Return(<<c>>)
            ELSE Return(<<c, SetEv(1, count)>>)
       ELSE Return(<<>>)

delete_pinhole(in, dev) ==
    LET upnp == in[1]
        uid == in[2]
        c == Call(dev, 1, "DeletePinhole", <<uid>>)
        result == c.val
    IN IF Truthy(upnp)
       THEN IF c.out = "raise" THEN Return(<<c>>)
            ELSE Return(<<c, SetEv(1, BoolV(Truthy(result)))>>)
       ELSE Return(<<>>)

\* the "while True" loop of list_port_mappings_igd2, inside the try:
\* [mappings, trace, exc], exc telling whether an exception left the loop
RECURSIVE igd2_loop(_, _, _, _)
igd2_loop(dev, index, mappings, tr) ==
    LET c == Call(dev, index + 1, "GetListOfPortMappings", <<IntV(index), IntV(1)>>)
        entry == c.val
    IN IF c.out = "raise"
       THEN [mappings |-> mappings, trace |-> Append(tr, c), exc |-> TRUE]
       ELSE IF ~Truthy(entry)
       THEN [mappings |-> mappings, trace |-> Append(tr, c), exc |-> FALSE]
       ELSE igd2_loop(dev, index + 1, mappings \o entry.l, Append(tr, c))

list_port_mappings_igd2(in, dev) ==
    LET upnp == in[1]
        r == igd2_loop(dev, 0, <<>>, <<>>)
    IN IF Truthy(upnp)
       THEN IF r.exc THEN Return(r.trace)
            ELSE Return(Append(r.trace, SetEv(1, ListV(r.mappings))))
       ELSE Return(<<>>)

get_firewall_status(in, dev) ==
    LET upnp == in[1]
        c == Call(dev, 1, "GetFirewallStatus", <<>>)
        firewall_enabled == c.val.l[1]
        inbound_pinhole == c.val.l[2]
    IN IF Truthy(upnp)
       THEN IF c.out = "raise" THEN Return(<<c>>)
            ELSE Return(<<c, SetEv(1, BoolV(Truthy(firewall_enabled))),
                          SetEv(2, BoolV(Truthy(inbound_pinhole)))>>)
       ELSE Return(<<>>)

\* reads inputs[5] of the five inputs its decorator declares
get_outbound_pinhole_timeout(in, dev) ==
    LET upnp == in[1]
        remote_ip == in[2]
        remote_port == IntOf(in[3])
        internal_ip == in[4]
        internal_port == IntOf(in[5])
        protocol == in[6]
        c == Call(dev, 1, "GetOutboundPinholeTimeout",
                  <<remote_ip, IntV(remote_port.n), internal_ip, IntV(internal_port.n),
                    protocol>>)
        timeout == c.val
    IN IF remote_port.err # "" THEN Raise(<<>>, remote_port.err)
       ELSE IF internal_port.err # "" THEN Raise(<<>>, internal_port.err)
       ELSE IF ~(6 \in DOMAIN in) THEN Raise(<<>>, "IndexError")
       ELSE IF Truthy(upnp)
       THEN IF c.out = "raise" THEN Return(<<c>>)
            ELSE Return(<<c, SetEv(1, timeout)>>)
       ELSE Return(<<>>)

get_presentation_url(in, dev) ==
    LET upnp == in[1]
        c == Call(dev, 1, "urlbase", <<>>)
        url == c.val
    IN IF Truthy(upnp)
       THEN IF c.out = "raise" THEN Return(<<c>>)
            ELSE Return(<<c, SetEv(1, url)>>)
       ELSE Return(<<>>)

(***************************************************************************)
(* The values the engine binds to the inputs.                              *)
(***************************************************************************)
\* the handle variable: never set, set to an empty value, or the UPnP object
Handles == {NoneV, StrV(""), UPnP}
Addrs == {NoneV, StrV("192.168.1.10")}
\* a port, lease or duration variable: unset, an int, a decimal text, a text
Numbers == {NoneV, IntV(80), StrV("443"), StrV("TCP")}
Protocols == {StrV("TCP"), StrV("UDP")}
Uids == {NoneV, StrV("uid-1")}
\* the tokens of the variable tail of add_multiple_port_mappings
Tokens == {IntV(80), IntV(443), IntV(8443), StrV("TCP")}
Tails == UNION {[1..n -> Tokens] : n \in 0..MaxTail}

\* input_args of each @parsing_decorator; -1 stands for "dynamic"
input_args ==
    [discover |-> 0, add_port_mapping |-> 6, delete_port_mapping |-> 3,
     get_status |-> 1, list_port_mappings |-> 1, add_any_port_mapping |-> 6,
     delete_port_range |-> 4, add_multiple_port_mappings |-> -1, add_pinhole |-> 6,
     update_pinhole |-> 3, check_pinhole |-> 2, get_pinhole_packet_count |-> 2,
     delete_pinhole |-> 2, list_port_mappings_igd2 |-> 1, get_firewall_status |-> 1,
     get_outbound_pinhole_timeout |-> 5, get_presentation_url |-> 1]

\* output_args of each @parsing_decorator
output_args ==
    [discover |-> 3, add_port_mapping |-> 2, delete_port_mapping |-> 1,
     get_status |-> 2, list_port_mappings |-> 1, add_any_port_mapping |-> 1,
     delete_port_range |-> 1, add_multiple_port_mappings |-> 1, add_pinhole |-> 1,
     update_pinhole |-> 1, check_pinhole |-> 1, get_pinhole_packet_count |-> 1,
     delete_pinhole |-> 1, list_port_mappings_igd2 |-> 1, get_firewall_status |-> 2,
     get_outbound_pinhole_timeout |-> 1, get_presentation_url |-> 1]

\* the output variables of the flow: outputs[k] is slot k + 1
Slots == 1..3

\* the decorator hands the primitive as many inputs as it declares (for the
\* dynamic one, at least the handle and the internal IP)
Bound(name, in) ==
    IF input_args[name] = -1 THEN Len(in) >= 2 ELSE Len(in) = input_args[name]

(***************************************************************************)
(* The state machine: one invocation.                                      *)
(***************************************************************************)
Init ==
    /\ pc = "idle"
    /\ op = ""
    /\ inputs = <<>>
    /\ trace = <<>>
    /\ raised = ""
    /\ store0 \in {[k \in Slots |-> NoneV], [k \in Slots |-> Stale]}
    /\ store = store0

\* the engine calls primitive name with inputs in; fr is the frame it ends with
Invoke(name, in, fr) ==
    /\ Bound(name, in)
    /\ pc' = "done"
    /\ op' = name
    /\ inputs' = in
    /\ trace' = fr.trace
    /\ raised' = fr.raised
    /\ store' = ApplyTrace(store, fr.trace)
    /\ UNCHANGED store0

Discover ==
    /\ pc = "idle"
    /\ \E dev \in Scripts : Invoke("discover", <<>>, discover(dev))

AddPortMapping ==
    /\ pc = "idle"
    /\ \E in \in Handles \X Addrs \X Addrs \X Numbers \X Numbers \X Protocols, dev \in Scripts :
           Invoke("add_port_mapping", in, add_port_mapping(in, dev))

DeletePortMapping ==
    /\ pc = "idle"
    /\ \E in \in Handles \X Numbers \X Protocols, dev \in Scripts :
           Invoke("delete_port_mapping", in, delete_port_mapping(in, dev))

GetStatus ==
    /\ pc = "idle"
    /\ \E in \in Handles \X {<<>>}, dev \in Scripts :
           Invoke("get_status", <<in[1]>>, get_status(<<in[1]>>, dev))

ListPortMappings ==
    /\ pc = "idle"
    /\ \E in \in Handles \X {<<>>}, dev \in Scripts :
           Invoke("list_port_mappings", <<in[1]>>, list_port_mappings(<<in[1]>>, dev))

AddAnyPortMapping ==
    /\ pc = "idle"
    /\ \E in \in Handles \X Addrs \X Numbers \X Numbers \X Protocols \X Numbers, dev \in Scripts :
           Invoke("add_any_port_mapping", in, add_any_port_mapping(in, dev))

DeletePortRange ==
    /\ pc = "idle"
    /\ \E in \in Handles \X Numbers \X Numbers \X Protocols, dev \in Scripts :
           Invoke("delete_port_range", in, delete_port_range(in, dev))

\* a group takes at least two tokens, so a tail leads to at most Len(tail) \div 2
\* calls: dev gives an outcome to each of them
AddMultiplePortMappings ==
    /\ pc = "idle"
    /\ \E h \in Handles, ip \in Addrs, tail \in Tails :
       \E dev \in [1..(Len(tail) \div 2) -> Outcomes] :
           Invoke("add_multiple_port_mappings", <<h, ip>> \o tail,
                  add_multiple_port_mappings(<<h, ip>> \o tail, dev))

AddPinhole ==
    /\ pc = "idle"
    /\ \E in \in Handles \X Addrs \X Numbers \X Addrs \X Numbers \X Protocols, dev \in Scripts :
           Invoke("add_pinhole", in, add_pinhole(in, dev))

UpdatePinhole ==
    /\ pc = "idle"
    /\ \E in \in Handles \X Uids \X Numbers, dev \in Scripts :
           Invoke("update_pinhole", in, update_pinhole(in, dev))

CheckPinhole ==
    /\ pc = "idle"
    /\ \E in \in Handles \X Uids, dev \in Scripts :
           Invoke("check_pinhole", in, check_pinhole(in, dev))

GetPinholePacketCount ==
    /\ pc = "idle"
    /\ \E in \in Handles \X Uids, dev \in Scripts :
           Invoke("get_pinhole_packet_count", in, get_pinhole_packet_count(in, dev))

DeletePinhole ==
    /\ pc = "idle"
    /\ \E in \in Handles \X Uids, dev \in Scripts :
           Invoke("delete_pinhole", in, delete_pinhole(in, dev))

ListPortMappingsIGD2 ==
    /\ pc = "idle"
    /\ \E in \in Handles \X {<<>>}, dev \in Scripts :
           Invoke("list_port_mappings_igd2", <<in[1]>>, list_port_mappings_igd2(<<in[1]>>, dev))

GetFirewallStatus ==
    /\ pc = "idle"
    /\ \E in \in Handles \X {<<>>}, dev \in Scripts :
           Invoke("get_firewall_status", <<in[1]>>, get_firewall_status(<<in[1]>>, dev))

GetOutboundPinholeTimeout ==
    /\ pc = "idle"
    /\ \E in \in Handles \X Addrs \X Numbers \X Addrs \X Numbers, dev \in Scripts :
           Invoke("get_outbound_pinhole_timeout", in, get_outbound_pinhole_timeout(in, dev))

GetPresentationUrl ==
    /\ pc = "idle"
    /\ \E in \in Handles \X {<<>>}, dev \in Scripts :
           Invoke("get_presentation_url", <<in[1]>>, get_presentation_url(<<in[1]>>, dev))

Next ==
    \/ Discover
    \/ AddPortMapping
    \/ DeletePortMapping
    \/ GetStatus
    \/ ListPortMappings
    \/ AddAnyPortMapping
    \/ DeletePortRange
    \/ AddMultiplePortMappings
    \/ AddPinhole
    \/ UpdatePinhole
    \/ CheckPinhole
    \/ GetPinholePacketCount
    \/ DeletePinhole
    \/ ListPortMappingsIGD2
    \/ GetFirewallStatus
    \/ GetOutboundPinholeTimeout
    \/ GetPresentationUrl

Spec == Init /\ [][Next]_vars

(***************************************************************************)
(* Vocabulary of the properties.                                           *)
(***************************************************************************)
Done(name) == pc = "done" /\ op = name
\* the device calls and the variable writes of the invocation, in order
CallsOf(tr) == SelectSeq(tr, LAMBDA e : e.k = "call")
SetsOf(tr) == SelectSeq(tr, LAMBDA e : e.k = "set")
NoCalls == CallsOf(trace) = <<>>
NoWrites == SetsOf(trace) = <<>>
DeviceRaised == \E j \in DOMAIN trace : trace[j].k = "call" /\ trace[j].out = "raise"
HandleUnset == op # "discover" /\ ~Truthy(inputs[1])
HandleValid == op # "discover" /\ inputs[1] = UPnP
\* the variable tail of an add_multiple_port_mappings invocation
TailOf(in) == SubSeq(in, 3, Len(in))
\* (internal_port, external_port, protocol) of an addportmapping call
TripleOf(c) == <<c.args[4], c.args[1], c.args[2]>>
TriplesCalled == [j \in DOMAIN CallsOf(trace) |-> TripleOf(CallsOf(trace)[j])]
IsPrefix(a, b) == Len(a) <= Len(b) /\ a = SubSeq(b, 1, Len(a))

\* The grammar of section 4.2 of the specification, read left to right:
\* status "ok" with the groups of a tail that decomposes into complete groups,
\* "dangling" with the complete groups before a last group that has no protocol
\* token, "bad" when a token has the wrong type for its place.
RECURSIVE Resolve(_)
Resolve(t) ==
    IF t = <<>> THEN [status |-> "ok", groups |-> <<>>]
    ELSE IF t[1].t # "int" THEN [status |-> "bad", groups |-> <<>>]
    ELSE LET ext == Len(t) >= 2 /\ t[2].t = "int"
             p == IF ext THEN 3 ELSE 2
         IN IF Len(t) < p THEN [status |-> "dangling", groups |-> <<>>]
            ELSE IF t[p].t # "str" THEN [status |-> "bad", groups |-> <<>>]
            ELSE LET rest == Resolve(SubSeq(t, p + 1, Len(t)))
                     g == <<t[1], IF ext THEN t[2] ELSE t[1], t[p]>>
                 IN [status |-> rest.status, groups |-> <<g>> \o rest.groups]

ExampleTail == <<IntV(80), StrV("TCP"), IntV(443), IntV(8443), StrV("TCP")>>
ExampleGroups == << <<IntV(80), IntV(80), StrV("TCP")>>,
                    <<IntV(443), IntV(8443), StrV("TCP")>> >>

(***************************************************************************)
(* C1.  For every operation other than Discover and every value of the     *)
(* other inputs: with the handle variable unset or falsy the invocation    *)
(* makes no Gateway Client call, raises nothing and writes no output       *)
(* variable.                                                               *)
(***************************************************************************)
C1_NoHandleNoOp ==
    (pc = "done" /\ HandleUnset) => (NoCalls /\ raised = "" /\ NoWrites /\ store = store0)

(***************************************************************************)
(* C2.  Batch resolution follows the type-driven lookahead grammar: on a   *)
(* well-formed tail the add-mapping calls are issued for the triples of    *)
(* the grammar, in order (all of them unless a device call raises), the    *)
(* external port being the next token iff that token is an integer and     *)
(* the internal port otherwise; the tail [80, "TCP", 443, 8443, "TCP"]     *)
(* gives (80, 80, TCP) and (443, 8443, TCP).                               *)
(***************************************************************************)
C2_BatchGrammar ==
    (Done("add_multiple_port_mappings") /\ HandleValid
        /\ Resolve(TailOf(inputs)).status = "ok")
    => /\ IsPrefix(TriplesCalled, Resolve(TailOf(inputs)).groups)
       /\ ~DeviceRaised =>
            /\ raised = ""
            /\ TriplesCalled = Resolve(TailOf(inputs)).groups
            /\ TailOf(inputs) = ExampleTail => TriplesCalled = ExampleGroups

C2_Witness ==
    /\ Done("add_multiple_port_mappings") /\ HandleValid
    /\ TailOf(inputs) = ExampleTail
    /\ raised = ""
    /\ Len(CallsOf(trace)) = 2
    /\ CallsOf(trace)[2].args[1] = IntV(8443)

(***************************************************************************)
(* C3.  AddMultipleMapping on a tail whose last group has no protocol      *)
(* token fails the whole batch: no add-mapping call is made (not even for  *)
(* the complete groups before it), the output is not written and no        *)
(* exception reaches the caller.                                           *)
(***************************************************************************)
C3_DanglingBatchFails ==
    (Done("add_multiple_port_mappings") /\ HandleValid
        /\ Resolve(TailOf(inputs)).status = "dangling")
    => (NoCalls /\ NoWrites /\ raised = "")

(***************************************************************************)
(* C4.  AddMultipleMapping with a valid handle and a well-formed tail of n *)
(* groups returns with an output of exactly n records, the k-th carrying   *)
(* the k-th triple and the success of the k-th call; a call that returns a *)
(* falsy value or raises gives success = false for its triple and leaves   *)
(* the other attempts and records in place.                                *)
(***************************************************************************)
C4_PerItemRecords ==
    (Done("add_multiple_port_mappings") /\ HandleValid
        /\ Resolve(TailOf(inputs)).status = "ok")
    => LET groups == Resolve(TailOf(inputs)).groups
           calls == CallsOf(trace)
           record(k) == DictV(<<groups[k][1], groups[k][2], groups[k][3],
                                BoolV(calls[k].out = "ok")>>)
       IN /\ raised = ""
          /\ Len(calls) = Len(groups)
          /\ SetsOf(trace) = <<SetEv(1, ListV([k \in DOMAIN groups |-> record(k)]))>>

(***************************************************************************)
(* C5.  DeletePortRange with a valid handle and ports start..end attempts  *)
(* the deletion of every port of the range and writes the ascending        *)
(* sequence of the ports whose deletion the gateway acknowledged, a        *)
(* rejected port being left out without ending the loop.                   *)
(***************************************************************************)
C5_RangePartialSuccess ==
    (Done("delete_port_range") /\ HandleValid
        /\ IntOf(inputs[2]).err = "" /\ IntOf(inputs[3]).err = "")
    => LET calls == CallsOf(trace)
           first == IntOf(inputs[2]).n
           last == IntOf(inputs[3]).n
           acked == SelectSeq(calls, LAMBDA c : c.out = "ok")
       IN /\ raised = ""
          /\ Len(calls) = (IF last >= first THEN last - first + 1 ELSE 0)
          /\ \A j \in DOMAIN calls :
                calls[j].name = "deleteportmapping" /\ calls[j].args[1] = IntV(first + j - 1)
          /\ SetsOf(trace) = <<SetEv(1, ListV([j \in DOMAIN acked |-> acked[j].args[1]]))>>

(***************************************************************************)
(* C6.  ListMappings with a valid handle probes the indices 0, 1, 2, ...   *)
(* in order and stops at the first index k where the device returns None   *)
(* or raises; it then writes exactly the k records of the indices 0..k-1,  *)
(* in index order, probes nothing after k and raises nothing.              *)
(***************************************************************************)
C6_ListProbing ==
    (Done("list_port_mappings") /\ HandleValid)
    => LET calls == CallsOf(trace)
           k == Len(calls) - 1
       IN /\ k >= 0
          /\ \A j \in DOMAIN calls :
                /\ calls[j].name = "getgenericportmapping"
                /\ calls[j].args = <<IntV(j - 1)>>
                /\ (calls[j].out = "ok") <=> (j <= k)
          /\ raised = ""
          /\ trace = calls \o <<SetEv(1, ListV([j \in 1..k |-> calls[j].val]))>>
          /\ store[1] = ListV([j \in 1..k |-> TupleV(<<IntV(j - 1), StrV("TCP")>>)])

\* three mappings, then absence at index 3
C6_Witness ==
    /\ Done("list_port_mappings") /\ HandleValid
    /\ Len(CallsOf(trace)) = 4
    /\ CallsOf(trace)[4].out = "falsy"
    /\ Len(store[1].l) = 3

(***************************************************************************)
(* C7.  ListMappingsIGD2 with a valid handle treats an exception of the    *)
(* device at index k like an empty result at index k: the output is set to *)
(* the records collected from the indices 0..k-1, in order.                *)
(***************************************************************************)
C7_Igd2ExceptionEndsList ==
    (Done("list_port_mappings_igd2") /\ HandleValid /\ DeviceRaised)
    => LET calls == CallsOf(trace)
       IN SetsOf(trace) =
            <<SetEv(1, ListV([j \in 1..(Len(calls) - 1) |-> calls[j].val.l[1]]))>>

(***************************************************************************)
(* C8.  No primitive lets a failure of the Gateway Client reach the flow:  *)
(* whenever a device call of an invocation raises, the primitive still     *)
(* returns normally.                                                       *)
(***************************************************************************)
C8_NoPropagation ==
    (pc = "done" /\ DeviceRaised) => raised = ""

(***************************************************************************)
(* C9.  For AddMapping, DeleteMapping, AddAnyMapping, UpdatePinhole and    *)
(* DeletePinhole a device-level failure, the call raising or returning a   *)
(* falsy value, leaves every declared output unwritten.                    *)
(***************************************************************************)
AckOps == {"add_port_mapping", "delete_port_mapping", "add_any_port_mapping",
           "update_pinhole", "delete_pinhole"}
DeviceFalsy == \E j \in DOMAIN trace : trace[j].k = "call" /\ trace[j].out = "falsy"

C9_FailureLeavesDefault ==
    (pc = "done" /\ op \in AckOps /\ (DeviceRaised \/ DeviceFalsy))
    => (NoWrites /\ store = store0)

(***************************************************************************)
(* C9, as amended.  For these five operations a raising device call leaves *)
(* every declared output unwritten; a falsy acknowledgment leaves them     *)
(* unwritten for AddMapping only, while UpdatePinhole and DeletePinhole    *)
(* write it as the success flag False and AddAnyMapping writes the value   *)
(* the device returned.                                                    *)
(***************************************************************************)
C9_FailureOutputs ==
    (pc = "done" /\ op \in AckOps)
    => /\ DeviceRaised => (NoWrites /\ store = store0)
       /\ (DeviceFalsy /\ op = "add_port_mapping") => (NoWrites /\ store = store0)
       /\ (DeviceFalsy /\ op \in {"update_pinhole", "delete_pinhole"})
             => (SetsOf(trace) = <<SetEv(1, BoolV(FALSE))>> /\ store[1] = BoolV(FALSE))
       /\ (DeviceFalsy /\ op = "add_any_port_mapping")
             => (SetsOf(trace) = <<SetEv(1, CallsOf(trace)[1].val)>>
                 /\ ~Truthy(store[1]))

\* a stale flag overwritten by the False of a rejected update
C9_Witness ==
    /\ Done("update_pinhole") /\ HandleValid
    /\ DeviceFalsy
    /\ store0[1] = Stale
    /\ store[1] = BoolV(FALSE)

DiscoverWrites ==
    /\ Len(SetsOf(trace)) = 3
    /\ \A k \in 1..3 : SetsOf(trace)[k].slot = k
    /\ SetsOf(trace)[1].val = UPnP
DevicesFound == Len(CallsOf(trace)) >= 1 /\ CallsOf(trace)[1].val.n > 0
Selected ==
    /\ Len(CallsOf(trace)) >= 2
    /\ CallsOf(trace)[2].name = "selectigd"
    /\ CallsOf(trace)[2].out = "ok"
ExternalIpRead ==
    /\ Len(CallsOf(trace)) >= 3
    /\ CallsOf(trace)[3].name = "externalipaddress"
    /\ CallsOf(trace)[3].out = "ok"

C11_DiscoverWritesIffSelected ==
    Done("discover")
    => /\ DiscoverWrites <=> (DevicesFound /\ Selected)
       /\ ~DevicesFound => (Len(CallsOf(trace)) = 1 /\ NoWrites)

(***************************************************************************)
(* C11, as amended.  Discover writes its three outputs if and only if the  *)
(* discovery reports at least one device, the selection succeeds and the   *)
(* query of the external IP address succeeds; in every other case it       *)
(* writes nothing, and with zero devices it selects no device.             *)
(***************************************************************************)
C11_DiscoverWritesIffAllSucceed ==
    Done("discover")
    => /\ DiscoverWrites <=> (DevicesFound /\ Selected /\ ExternalIpRead)
       /\ DiscoverWrites =>
            (store = <<UPnP, StrV("192.168.1.10"), CallsOf(trace)[3].val>> /\ raised = "")
       /\ ~DiscoverWrites => (NoWrites /\ store = store0)
       /\ ~DevicesFound => (Len(CallsOf(trace)) = 1 /\ NoWrites)
       /\ (DevicesFound /\ CallsOf(trace)[1].out # "raise") => Len(CallsOf(trace)) >= 2
       /\ Selected => Len(CallsOf(trace)) = 3

C11_Witness ==
    /\ Done("discover")
    /\ DevicesFound /\ Selected /\ ExternalIpRead
    /\ store0[1] = Stale
    /\ store[1] = UPnP

(***************************************************************************)
(* A flow of two steps: AddMapping, acknowledged by the gateway, then      *)
(* DeleteMapping on the same handle with the same external port and        *)
(* protocol, on a gateway that acknowledges the deletion.                  *)
(***************************************************************************)
Acknowledging == [j \in 1..MaxCalls |-> "ok"]

DeleteAfterAdd ==
    /\ Done("add_port_mapping")
    /\ raised = ""
    /\ CallsOf(trace) # <<>> /\ CallsOf(trace)[1].out = "ok"
    /\ LET in == <<inputs[1], inputs[4], inputs[6]>>
           fr == delete_port_mapping(in, Acknowledging)
       IN /\ Bound("delete_port_mapping", in)
          /\ pc' = "done"
          /\ op' = "delete_port_mapping"
          /\ inputs' = in
          /\ trace' = fr.trace
          /\ raised' = fr.raised
          /\ store' = ApplyTrace(store, fr.trace)
          /\ UNCHANGED store0

NextAddDelete ==
    \/ AddPortMapping
    \/ DeleteAfterAdd

SpecAddDelete == Init /\ [][NextAddDelete]_vars

(***************************************************************************)
(* C12.  On a gateway that acknowledges both calls, AddMapping followed by *)
(* DeleteMapping with the same (ext_port, protocol) on the same handle     *)
(* issues the delete call for exactly that pair and sets the success flag  *)
(* of DeleteMapping to true.                                               *)
(***************************************************************************)
C12_DeleteAfterAddSucceeds ==
    Done("delete_port_mapping")
    => /\ raised = ""
       /\ CallsOf(trace) = <<CallEv("deleteportmapping",
                                    <<IntV(IntOf(inputs[2]).n), inputs[3]>>,
                                    "ok", BoolV(TRUE))>>
       /\ SetsOf(trace) = <<SetEv(1, BoolV(TRUE))>>
       /\ store[1] = BoolV(TRUE)

(***************************************************************************)
(* C13.  No automatic retries: within one invocation every single-item     *)
(* primitive calls each of its device operations at most once,             *)
(* AddMultipleMapping makes exactly one add-mapping call per resolved      *)
(* triple and DeletePortRange exactly one delete-mapping call per port of  *)
(* the range, whether the calls succeed or fail.                           *)
(***************************************************************************)
ManyItemOps == {"add_multiple_port_mappings", "delete_port_range",
                "list_port_mappings", "list_port_mappings_igd2"}

C13_OneAttemptPerItem ==
    pc = "done"
    => LET calls == CallsOf(trace)
       IN /\ op \notin ManyItemOps =>
                \A i, j \in DOMAIN calls : calls[i].name = calls[j].name => i = j
          /\ (op = "add_multiple_port_mappings" /\ HandleValid
                /\ Resolve(TailOf(inputs)).status = "ok")
             => TriplesCalled = Resolve(TailOf(inputs)).groups
          /\ (op = "delete_port_range" /\ HandleValid
                /\ IntOf(inputs[2]).err = "" /\ IntOf(inputs[3]).err = ""
                /\ IntOf(inputs[2]).n <= IntOf(inputs[3]).n)
             => /\ Len(calls) = IntOf(inputs[3]).n - IntOf(inputs[2]).n + 1
                /\ \A j \in DOMAIN calls :
                      /\ calls[j].name = "deleteportmapping"
                      /\ calls[j].args = <<IntV(IntOf(inputs[2]).n + j - 1), inputs[4]>>

(***************************************************************************)
(* C14.  For every fixed-arity primitive the declared arities cover every  *)
(* input slot it reads and every output slot it writes, so that a          *)
(* primitive called with its declared inputs never reads past them; in     *)
(* particular AddPinhole and GetOutboundPinholeTimeout, with a valid       *)
(* handle and a device that returns a value, write their output.           *)
(***************************************************************************)
C14_ArityCoversSlots ==
    (pc = "done" /\ input_args[op] # -1 /\ Len(inputs) = input_args[op])
    => /\ raised # "IndexError"
       /\ \A j \in DOMAIN trace : trace[j].k = "set" => trace[j].slot <= output_args[op]
       /\ (op \in {"add_pinhole", "get_outbound_pinhole_timeout"} /\ HandleValid
             /\ IntOf(inputs[3]).err = "" /\ IntOf(inputs[5]).err = "" /\ ~DeviceRaised)
          => (raised = "" /\ Len(SetsOf(trace)) = 1 /\ store[1] = CallsOf(trace)[1].val)

(***************************************************************************)
(* C15.  Multi-output operations write all of their outputs or none: after *)
(* any invocation of Discover, AddMapping, GetStatus or GetFirewallStatus, *)
(* whatever the device returns or raises, either every declared output has *)
(* been written with the result of this invocation or none has; GetStatus  *)
(* makes both its status query and its external-IP query before it writes  *)
(* either output.                                                          *)
(***************************************************************************)
MultiOutputOps == {"discover", "add_port_mapping", "get_status", "get_firewall_status"}

LoopsOf(tr) == SelectSeq(tr, LAMBDA e : e.k = "loop")
LoopHeads == [j \in DOMAIN LoopsOf(trace) |-> LoopsOf(trace)[j].slot]

C16_BatchLoopAdvances ==
    (Done("add_multiple_port_mappings") /\ Truthy(inputs[1]))
    => LET n == Len(TailOf(inputs))
           calls == CallsOf(trace)
       IN /\ LoopHeads # <<>> /\ LoopHeads[1] = 0
          /\ \A j \in 1..(Len(LoopHeads) - 1) : LoopHeads[j + 1] - LoopHeads[j] \in {2, 3}
          /\ \A j \in DOMAIN LoopHeads : LoopHeads[j] <= n
          /\ Len(calls) <= n \div 2
          /\ Len(calls) \in {Len(LoopHeads) - 1, Len(LoopHeads)}
          /\ raised = "" =>
                /\ LoopHeads[Len(LoopHeads)] = n
                /\ Len(calls) = Len(LoopHeads) - 1
                /\ trace[Len(trace)].k = "set"

\* the example tail: one step of 2 and one step of 3
C16_Witness ==
    /\ Done("add_multiple_port_mappings") /\ HandleValid
    /\ LoopHeads = <<0, 2, 5>>
    /\ Len(CallsOf(trace)) = 2
    /\ raised = ""

(***************************************************************************)
(* C17.  DeletePortRange with a valid handle and start_port > end_port     *)
(* makes no delete-mapping call and writes the empty sequence to its       *)
(* output: a successful empty result, unlike the output left unset by an   *)
(* invocation without a handle.                                            *)
(***************************************************************************)
EmptyRange ==
    /\ IntOf(inputs[2]).err = "" /\ IntOf(inputs[3]).err = ""
    /\ IntOf(inputs[2]).n > IntOf(inputs[3]).n

C17_EmptyRange ==
    (Done("delete_port_range") /\ HandleValid /\ EmptyRange)
    => /\ NoCalls
       /\ raised = ""
       /\ SetsOf(trace) = <<SetEv(1, ListV(<<>>))>>
       /\ store[1] = ListV(<<>>)

====
